---- MODULE Spec2Model ----
(***************************************************************************)
(* Model of the reconciliation engine of src/BudgetTracker.py: the class   *)
(* BudgetTracker over its sqlite3 connection.                              *)
(*                                                                         *)
(* The connection is opened with the default isolation level of the        *)
(* sqlite3 module: an INSERT or DELETE issued while no transaction is      *)
(* open first opens one, a SELECT never does, conn.commit() and            *)
(* conn.rollback() end the open transaction (and do nothing when there is  *)
(* none), while the SQL statements BEGIN, COMMIT and ROLLBACK sent through *)
(* cursor.execute raise OperationalError when the connection is in the     *)
(* wrong transaction state.                                                *)
(*                                                                         *)
(* Dates are day numbers.  The code keeps them as 'YYYY-MM-DD' strings and *)
(* compares the strings; for four-digit years that order is the order of   *)
(* the day numbers.                                                        *)
(***************************************************************************)
EXTENDS Integers, Sequences, FiniteSets, TLC

\* ------------------------------------------------------------------------
\* Bounds of the model
\* ------------------------------------------------------------------------
MaxTxns == 2        \* highest transaction id handed out
MaxVals == 2        \* highest validated_expenses id handed out
MaxStmtLen == 2     \* longest parsed statement given to ingest

\* ------------------------------------------------------------------------
\* Values
\* ------------------------------------------------------------------------
NULL == 0                       \* SQL NULL / Python None in an id column (rowids start at 1)
BadDate == 0                    \* a date string that is not in '%Y-%m-%d' form
Dates == {1, 6}                 \* day numbers, exactly DefaultTolerance days apart
Amounts == {1000, 1200}
Kinds == {"debit", "credit"}    \* CHECK(type IN ('debit', 'credit'))
DefaultTolerance == 5           \* tolerance_days=5
Tolerances == {DefaultTolerance - 1, DefaultTolerance}
IdArgs == 1..MaxTxns            \* ids a caller may pass

\* The statement row of the specification's example, and rows that differ
\* from it in exactly one of the fields the duplicate check compares.
Base == [date |-> 1, description |-> "Rent", amount |-> 1000, kind |-> "debit"]

\* Rows a parsed statement is made of, as process_bank_statement reads them
\* from the DataFrame.
ParsedTxns == {Base,
               [Base EXCEPT !.date = 6],
               [Base EXCEPT !.description = "Tea"],
               [Base EXCEPT !.amount = 1200],
               [Base EXCEPT !.kind = "credit"]}

\* A parsed statement is never empty: the parser raises when it found nothing.
Statements == UNION {[1..n -> ParsedTxns] : n \in 1..MaxStmtLen}

\* Arguments of add_manual_transaction: two the store accepts, one whose date
\* find_matching_transactions cannot interpret, one whose type the CHECK
\* constraint rejects.
ManualArgs == {[Base EXCEPT !.date = 6],
               [Base EXCEPT !.kind = "credit"],
               [Base EXCEPT !.date = BadDate],
               [Base EXCEPT !.kind = "transfer"]}

VARIABLES
    db,         \* the tables as the connection sees them (uncommitted changes included)
    saved,      \* the tables as last committed
    in_txn,     \* conn.in_transaction
    last,       \* the last call, its arguments and what it returned or raised
    doc,        \* the document given to the statement parser
    parsed      \* what the parser returned or raised for it

vars == <<db, saved, in_txn, last, doc, parsed>>

EmptyDb == [txns |-> {}, vals |-> {}, seqT |-> 0, seqV |-> 0]

NoDoc == <<>>

NotParsed == [op |-> "none", outcome |-> "ok", error |-> "none",
              transactions |-> <<>>, headers |-> <<>>]

NoCall == [op |-> "none", outcome |-> "ok", error |-> "none", id |-> NULL, bank |-> NULL,
           accepted |-> FALSE, added |-> 0, dups |-> 0, matches |-> {},
           amount |-> 0, date |-> BadDate, tol |-> 0]

\* ------------------------------------------------------------------------
\* find_matching_transactions
\* ------------------------------------------------------------------------

\* SELECT COALESCE(bank_transaction_id, -1) FROM validated_expenses
\* WHERE bank_transaction_id IS NOT NULL
ValidatedBankIds(d) ==
    {(IF v.bank = NULL THEN -1 ELSE v.bank) : v \in {w \in d.vals : w.bank # NULL}}

\* Mutant: the query without its NOT IN clause.
find_matching_transactions_no_exclusion(d, amount, date, tolerance_days) ==
    {r \in d.txns :
        /\ r.kind = "debit"
        /\ r.amount = amount
        /\ r.date >= date - tolerance_days /\ r.date <= date + tolerance_days
        /\ r.source = "bank_statement"}

\* Mutant: the end of the window is left out (date < end_date).
find_matching_transactions_exclusive_end(d, amount, date, tolerance_days) ==
    {r \in d.txns :
        /\ r.kind = "debit"
        /\ r.amount = amount
        /\ r.date >= date - tolerance_days /\ r.date < date + tolerance_days
        /\ r.source = "bank_statement"
        /\ r.id \notin ValidatedBankIds(d)}

\* The rows the query returns, for a date the function can interpret.
find_matching_transactions(d, amount, date, tolerance_days) ==
    LET start_date == date - tolerance_days
        end_date == date + tolerance_days
    IN {r \in d.txns :
            /\ r.kind = "debit"
            /\ r.amount = amount
            /\ r.date >= start_date /\ r.date <= end_date
            /\ r.source = "bank_statement"
            /\ r.id \notin ValidatedBankIds(d)}

\* A call of find_matching_transactions by the UI layer.
FindMatches(amount, date, tol) ==
    /\ UNCHANGED <<db, saved, in_txn, doc, parsed>>
    /\ IF date = BadDate
       THEN \* strptime raises
            last' = [NoCall EXCEPT !.op = "find_matches", !.outcome = "raised",
                                   !.error = "ValueError"]
       ELSE last' = [NoCall EXCEPT !.op = "find_matches",
                                   !.amount = amount, !.date = date, !.tol = tol,
                                   !.matches = find_matching_transactions(db, amount, date, tol)]

\* ------------------------------------------------------------------------
\* validate_expense
\* ------------------------------------------------------------------------

\* Mutant: the method without its self.conn.commit().
validate_expense_no_commit(d, s, t, manual_transaction_id, bank_transaction_id, is_validated) ==
    IF manual_transaction_id = NULL
    THEN [db |-> s, saved |-> s, in_txn |-> FALSE, outcome |-> "raised", error |-> "IntegrityError"]
    ELSE LET rec == [id |-> d.seqV + 1,
                     manual |-> manual_transaction_id,
                     bank |-> IF is_validated THEN bank_transaction_id ELSE NULL,
                     accepted |-> is_validated]
             d2 == [d EXCEPT !.vals = @ \cup {rec}, !.seqV = @ + 1]
         IN [db |-> d2, saved |-> s, in_txn |-> TRUE, outcome |-> "ok", error |-> "none"]

\* Mutant: the bank id is stored whatever is_validated is.
validate_expense_keeps_bank_id(d, s, t, manual_transaction_id, bank_transaction_id, is_validated) ==
    IF manual_transaction_id = NULL
    THEN [db |-> s, saved |-> s, in_txn |-> FALSE, outcome |-> "raised", error |-> "IntegrityError"]
    ELSE LET rec == [id |-> d.seqV + 1,
                     manual |-> manual_transaction_id,
                     bank |-> bank_transaction_id,
                     accepted |-> is_validated]
             d2 == [d EXCEPT !.vals = @ \cup {rec}, !.seqV = @ + 1]
         IN [db |-> d2, saved |-> d2, in_txn |-> FALSE, outcome |-> "ok", error |-> "none"]

\* d, s, t: the connection's view, the committed tables and in_transaction
\* at the call.  The INSERT checks nothing but NOT NULL: foreign keys are not
\* enforced on this connection and no row is looked up.
validate_expense(d, s, t, manual_transaction_id, bank_transaction_id, is_validated) ==
    IF manual_transaction_id = NULL
    THEN \* NOT NULL constraint failed: except branch, self.conn.rollback(), raise
         [db |-> s, saved |-> s, in_txn |-> FALSE, outcome |-> "raised", error |-> "IntegrityError"]
    ELSE LET rec == [id |-> d.seqV + 1,
                     manual |-> manual_transaction_id,
                     bank |-> IF is_validated THEN bank_transaction_id ELSE NULL,
                     accepted |-> is_validated]
             d2 == [d EXCEPT !.vals = @ \cup {rec}, !.seqV = @ + 1]
         IN \* self.conn.commit()
            [db |-> d2, saved |-> d2, in_txn |-> FALSE, outcome |-> "ok", error |-> "none"]

\* The manual ids a caller holds: ids add_manual_transaction returned, of rows
\* still in the store.  The UI passes such an id, the API also takes None.
ManualIds(d) == {r.id : r \in {x \in d.txns : x.source = "manual"}}

Validate(manual_id, bank_id, is_validated) ==
    /\ db.seqV < MaxVals
    /\ manual_id \in ManualIds(db) \cup {NULL}
    /\ UNCHANGED <<doc, parsed>>
    /\ LET r == validate_expense(db, saved, in_txn, manual_id, bank_id, is_validated)
       IN /\ db' = r.db
          /\ saved' = r.saved
          /\ in_txn' = r.in_txn
          /\ last' = [NoCall EXCEPT !.op = "validate", !.outcome = r.outcome,
                                    !.error = r.error, !.id = manual_id,
                                    !.bank = bank_id, !.accepted = is_validated]

\* ------------------------------------------------------------------------
\* process_bank_statement
\* ------------------------------------------------------------------------

\* Mutant: the dates of the two sides are formatted differently, nothing matches.
is_duplicate_never(txns, row) == FALSE

\* Mutant: the check looks at bank_statement rows only.
is_duplicate_bank_only(txns, row) ==
    \E r \in txns : /\ r.date = row.date
                    /\ r.description = row.description
                    /\ r.amount = row.amount
                    /\ r.kind = row.kind
                    /\ r.source = "bank_statement"

\* Mutant: the check looks at manual rows only.
is_duplicate_manual_only(txns, row) ==
    \E r \in txns : /\ r.date = row.date
                    /\ r.description = row.description
                    /\ r.amount = row.amount
                    /\ r.kind = row.kind
                    /\ r.source = "manual"

\* SELECT COUNT(*) FROM transactions WHERE date = ? AND description = ?
\* AND amount = ? AND type = ?   gives a count other than 0
is_duplicate(txns, row) ==
    \E r \in txns : /\ r.date = row.date
                    /\ r.description = row.description
                    /\ r.amount = row.amount
                    /\ r.kind = row.kind

\* INSERT INTO transactions (...) VALUES (..., 'bank_statement')
insert_bank_row(d, row) ==
    [d EXCEPT !.txns = @ \cup {[id |-> d.seqT + 1, date |-> row.date,
                                description |-> row.description, amount |-> row.amount,
                                kind |-> row.kind, source |-> "bank_statement"]},
              !.seqT = @ + 1]

\* The loop over df.iterrows(), from row i on.  fault is the index of the row
\* whose INSERT raises, 0 for none: an error that fails that statement alone,
\* such as "database is locked".  The sqlite3 module opens the transaction
\* before it runs the INSERT, so it is open whether the INSERT fails or not.
RECURSIVE ingest_loop(_, _, _, _)
ingest_loop(st, stmt, i, fault) ==
    IF i > Len(stmt) \/ st.failed
    THEN st
    ELSE IF is_duplicate(st.db.txns, stmt[i])
         THEN ingest_loop([st EXCEPT !.dups = @ + 1], stmt, i + 1, fault)
         ELSE IF fault = i
              THEN [st EXCEPT !.in_txn = TRUE, !.failed = TRUE]
              ELSE ingest_loop([st EXCEPT !.db = insert_bank_row(st.db, stmt[i]),
                                          !.in_txn = TRUE, !.added = @ + 1],
                               stmt, i + 1, fault)

process_bank_statement(d, s, t, stmt, fault) ==
    LET st == ingest_loop([db |-> d, in_txn |-> t, added |-> 0, dups |-> 0, failed |-> FALSE],
                          stmt, 1, fault)
    IN IF st.failed
       THEN \* except branch: return False, str(e); nothing is rolled back
            [db |-> st.db, saved |-> s, in_txn |-> st.in_txn, outcome |-> "failed",
             error |-> "store", added |-> 0, dups |-> 0]
       ELSE \* self.conn.commit(); return True, message
            [db |-> st.db, saved |-> st.db, in_txn |-> FALSE, outcome |-> "ok",
             error |-> "none", added |-> st.added, dups |-> st.dups]

Ingest(stmt, fault) ==
    LET r == process_bank_statement(db, saved, in_txn, stmt, fault)
    IN /\ r.db.seqT <= MaxTxns
       /\ UNCHANGED <<doc, parsed>>
       /\ db' = r.db
       /\ saved' = r.saved
       /\ in_txn' = r.in_txn
       /\ last' = [NoCall EXCEPT !.op = "ingest", !.outcome = r.outcome, !.error = r.error,
                                 !.added = r.added, !.dups = r.dups]

\* The parser raises (no header, no column, no transaction): the except
\* branch returns (False, message) before any statement reaches the store.
IngestParseFailure ==
    /\ UNCHANGED <<db, saved, in_txn, doc, parsed>>
    /\ last' = [NoCall EXCEPT !.op = "ingest", !.outcome = "failed", !.error = "parse"]

\* ------------------------------------------------------------------------
\* add_manual_transaction
\* ------------------------------------------------------------------------

\* INSERT INTO transactions (...) VALUES (..., 'manual')
insert_manual_row(d, date, description, amount, kind) ==
    [d EXCEPT !.txns = @ \cup {[id |-> d.seqT + 1, date |-> date,
                                description |-> description, amount |-> amount,
                                kind |-> kind, source |-> "manual"]},
              !.seqT = @ + 1]

\* Mutant: the candidate search runs for credits too.
add_manual_transaction_searches_credit(d, s, t, date, description, amount, transaction_type) ==
    IF transaction_type \notin Kinds
    THEN [db |-> s, saved |-> s, in_txn |-> FALSE, outcome |-> "raised",
          error |-> "IntegrityError", id |-> NULL, matches |-> {}]
    ELSE LET d2 == insert_manual_row(d, date, description, amount, transaction_type)
         IN IF date = BadDate
            THEN [db |-> s, saved |-> s, in_txn |-> FALSE, outcome |-> "raised",
                  error |-> "ValueError", id |-> NULL, matches |-> {}]
            ELSE [db |-> d2, saved |-> d2, in_txn |-> FALSE, outcome |-> "ok",
                  error |-> "none", id |-> d.seqT + 1,
                  matches |-> find_matching_transactions(d2, amount, date, DefaultTolerance)]

add_manual_transaction(d, s, t, date, description, amount, transaction_type) ==
    IF transaction_type \notin Kinds
    THEN \* CHECK constraint failed: self.conn.rollback(), raise
         [db |-> s, saved |-> s, in_txn |-> FALSE, outcome |-> "raised",
          error |-> "IntegrityError", id |-> NULL, matches |-> {}]
    ELSE LET d2 == insert_manual_row(d, date, description, amount, transaction_type)
         IN IF transaction_type = "debit" /\ date = BadDate
            THEN \* strptime in find_matching_transactions raises: rollback, raise
                 [db |-> s, saved |-> s, in_txn |-> FALSE, outcome |-> "raised",
                  error |-> "ValueError", id |-> NULL, matches |-> {}]
            ELSE \* self.conn.commit(); return transaction_id, matches
                 [db |-> d2, saved |-> d2, in_txn |-> FALSE, outcome |-> "ok",
                  error |-> "none", id |-> d.seqT + 1,
                  matches |-> IF transaction_type = "debit"
                              THEN find_matching_transactions(d2, amount, date, DefaultTolerance)
                              ELSE {}]

AddManual(date, description, amount, kind) ==
    /\ db.seqT < MaxTxns
    /\ UNCHANGED <<doc, parsed>>
    /\ LET r == add_manual_transaction(db, saved, in_txn, date, description, amount, kind)
       IN /\ db' = r.db
          /\ saved' = r.saved
          /\ in_txn' = r.in_txn
          /\ last' = [NoCall EXCEPT !.op = "add_manual", !.outcome = r.outcome,
                                    !.error = r.error, !.id = r.id, !.matches = r.matches]

\* ------------------------------------------------------------------------
\* The Add New Transaction form of show_transactions
\* ------------------------------------------------------------------------

\* What the form can send: date_input gives a date, the selectbox one of
\* 'debit' and 'credit'.
FormArgs == {p \in ManualArgs : p.date # BadDate /\ p.kind \in Kinds}

\* The run of show_transactions in which form_submit_button returned True.
\* The block under the form calls add_manual_transaction with the fields;
\* the block under the transaction history calls it again with the same
\* fields (the date formatted with strftime) and keeps the id and the
\* matches of that call for the Accept Match and Decline buttons.  first is
\* what the first call left and returned.
submit_form(first, date, description, amount, transaction_type) ==
    add_manual_transaction(first.db, first.saved, first.in_txn,
                           date, description, amount, transaction_type)

SubmitForm(date, description, amount, kind) ==
    /\ db.seqT + 2 <= MaxTxns
    /\ UNCHANGED <<doc, parsed>>
    /\ LET r == submit_form(add_manual_transaction(db, saved, in_txn,
                                                  date, description, amount, kind),
                            date, description, amount, kind)
       IN /\ db' = r.db
          /\ saved' = r.saved
          /\ in_txn' = r.in_txn
          /\ last' = [NoCall EXCEPT !.op = "submit_form", !.outcome = r.outcome,
                                    !.error = r.error, !.id = r.id, !.matches = r.matches]

\* ------------------------------------------------------------------------
\* delete_manual_transaction
\* ------------------------------------------------------------------------

\* Mutant: the DELETE without its WHERE clause.
delete_validations_all(d, transaction_id) ==
    [d EXCEPT !.vals = {}]

\* DELETE FROM validated_expenses WHERE manual_transaction_id = ?
delete_validations(d, transaction_id) ==
    [d EXCEPT !.vals = {v \in @ : v.manual # transaction_id}]

\* DELETE FROM transactions WHERE id = ? AND source = 'manual'
delete_transaction(d, transaction_id) ==
    [d EXCEPT !.txns = {r \in @ : ~(r.id = transaction_id /\ r.source = "manual")}]

DeleteFaults == {"none", "delete_validations", "delete_transaction"}

\* Mutant: no BEGIN, each DELETE is committed as it is made.
delete_manual_transaction_autocommit(d, s, t, transaction_id, fault) ==
    LET found == {r \in d.txns : r.id = transaction_id}
    IN IF found = {} \/ \E r \in found : r.source # "manual"
       THEN IF t
            THEN [db |-> s, saved |-> s, in_txn |-> FALSE, outcome |-> "failed", error |-> "NotManual"]
            ELSE [db |-> d, saved |-> s, in_txn |-> FALSE, outcome |-> "raised", error |-> "OperationalError"]
       ELSE IF fault = "delete_validations"
            THEN [db |-> d, saved |-> d, in_txn |-> FALSE, outcome |-> "failed", error |-> "store"]
            ELSE LET d1 == delete_validations(d, transaction_id)
                     d2 == delete_transaction(d1, transaction_id)
                 IN IF fault = "delete_transaction"
                    THEN [db |-> d1, saved |-> d1, in_txn |-> FALSE, outcome |-> "failed", error |-> "store"]
                    ELSE [db |-> d2, saved |-> d2, in_txn |-> FALSE, outcome |-> "ok", error |-> "none"]

\* Mutant: no check of the source, neither in the SELECT nor in the DELETE.
delete_manual_transaction_any_source(d, s, t, transaction_id, fault) ==
    LET found == {r \in d.txns : r.id = transaction_id}
    IN IF found = {}
       THEN IF t
            THEN [db |-> s, saved |-> s, in_txn |-> FALSE, outcome |-> "failed", error |-> "NotManual"]
            ELSE [db |-> d, saved |-> s, in_txn |-> FALSE, outcome |-> "raised", error |-> "OperationalError"]
       ELSE IF t
            THEN [db |-> s, saved |-> s, in_txn |-> FALSE, outcome |-> "failed", error |-> "OperationalError"]
            ELSE IF fault # "none"
                 THEN [db |-> s, saved |-> s, in_txn |-> FALSE, outcome |-> "failed", error |-> "store"]
                 ELSE LET d1 == delete_validations(d, transaction_id)
                          d2 == [d1 EXCEPT !.txns = {r \in @ : r.id # transaction_id}]
                      IN [db |-> d2, saved |-> d2, in_txn |-> FALSE, outcome |-> "ok", error |-> "none"]

\* fault names the DELETE that raises (a store error), "none" for neither.
\* In the except branch ROLLBACK is sent as a statement: it undoes the open
\* transaction, and raises OperationalError itself when none is open.
delete_manual_transaction(d, s, t, transaction_id, fault) ==
    LET found == {r \in d.txns : r.id = transaction_id}
    IN IF found = {} \/ \E r \in found : r.source # "manual"
       THEN \* raise ValueError("Only manually entered transactions can be deleted")
            IF t
            THEN \* ROLLBACK ends the transaction that was open at the call
                 [db |-> s, saved |-> s, in_txn |-> FALSE, outcome |-> "failed", error |-> "NotManual"]
            ELSE \* cannot rollback - no transaction is active
                 [db |-> d, saved |-> s, in_txn |-> FALSE, outcome |-> "raised", error |-> "OperationalError"]
       ELSE IF t
            THEN \* BEGIN TRANSACTION: cannot start a transaction within a transaction
                 [db |-> s, saved |-> s, in_txn |-> FALSE, outcome |-> "failed", error |-> "OperationalError"]
            ELSE IF fault = "delete_validations"
                 THEN [db |-> s, saved |-> s, in_txn |-> FALSE, outcome |-> "failed", error |-> "store"]
                 ELSE LET d1 == delete_validations(d, transaction_id)
                          d2 == delete_transaction(d1, transaction_id)
                      IN IF fault = "delete_transaction"
                         THEN \* ROLLBACK undoes the first DELETE
                              [db |-> s, saved |-> s, in_txn |-> FALSE, outcome |-> "failed", error |-> "store"]
                         ELSE \* COMMIT; return True, message
                              [db |-> d2, saved |-> d2, in_txn |-> FALSE, outcome |-> "ok", error |-> "none"]

DeleteManual(transaction_id, fault) ==
    LET r == delete_manual_transaction(db, saved, in_txn, transaction_id, fault)
    IN /\ db' = r.db
       /\ saved' = r.saved
       /\ in_txn' = r.in_txn
       /\ last' = [NoCall EXCEPT !.op = "delete_manual", !.outcome = r.outcome,
                                 !.error = r.error, !.id = transaction_id]
       /\ UNCHANGED <<doc, parsed>>

Init ==
    /\ db = EmptyDb
    /\ saved = EmptyDb
    /\ in_txn = FALSE
    /\ last = NoCall
    /\ doc = NoDoc
    /\ parsed = NotParsed

Next ==
    \/ \E a \in Amounts, d \in Dates \cup {BadDate}, t \in Tolerances : FindMatches(a, d, t)
    \/ \E m \in IdArgs \cup {NULL}, b \in IdArgs \cup {NULL}, v \in BOOLEAN : Validate(m, b, v)
    \/ \E stmt \in Statements : \E fault \in 0..Len(stmt) : Ingest(stmt, fault)
    \/ IngestParseFailure
    \/ \E p \in ManualArgs : AddManual(p.date, p.description, p.amount, p.kind)
    \/ \E p \in FormArgs : SubmitForm(p.date, p.description, p.amount, p.kind)
    \/ \E id \in IdArgs, fault \in DeleteFaults : DeleteManual(id, fault)

Spec == Init /\ [][Next]_vars

\* ========================================================================
\* BankStatementParser
\* ========================================================================
\* Text is a sequence of one-character strings, so that the parser's
\* substring tests, lower(), strip() and the character filter of
\* clean_amount are computed.  Amounts are counted in hundredths; a date is
\* the number year * 10000 + month * 100 + day.

MaxRows == 4        \* most rows of a document

NoDate == 0         \* parse_date returned None

Digits == <<"0", "1", "2", "3", "4", "5", "6", "7", "8", "9">>
UpperCase == <<"A", "B", "C", "D", "E", "F", "G", "H", "I", "J", "K", "L", "M",
               "N", "O", "P", "Q", "R", "S", "T", "U", "V", "W", "X", "Y", "Z">>
LowerCase == <<"a", "b", "c", "d", "e", "f", "g", "h", "i", "j", "k", "l", "m",
               "n", "o", "p", "q", "r", "s", "t", "u", "v", "w", "x", "y", "z">>

DigitValues == [c \in {Digits[i] : i \in 1..10} |-> (CHOOSE i \in 1..10 : Digits[i] = c) - 1]
IsDigit(c) == c \in DOMAIN DigitValues
DigitVal(c) == DigitValues[c]

\* str.lower()
ToLower == [c \in {UpperCase[i] : i \in 1..26} |-> LowerCase[CHOOSE i \in 1..26 : UpperCase[i] = c]]
LowerChar(c) == IF c \in DOMAIN ToLower THEN ToLower[c] ELSE c
Lower(s) == [i \in 1..Len(s) |-> LowerChar(s[i])]

\* kw in s
Contains(s, kw) ==
    \E i \in 1..(Len(s) - Len(kw) + 1) : \A k \in 1..Len(kw) : s[i + k - 1] = kw[k]

\* The least element of a non-empty set of numbers.
Min(S) == CHOOSE i \in S : \A j \in S : i <= j
Max(S) == CHOOSE i \in S : \A j \in S : i >= j

\* str.strip()
StripBetween(s, inked) == IF inked = {} THEN <<>> ELSE SubSeq(s, Min(inked), Max(inked))
Strip(s) == StripBetween(s, {i \in 1..Len(s) : s[i] # " "})

\* ' '.join(parts)
RECURSIVE JoinSpace(_)
JoinSpace(parts) ==
    IF Len(parts) = 0 THEN <<>>
    ELSE IF Len(parts) = 1 THEN parts[1]
    ELSE parts[1] \o <<" ">> \o JoinSpace(Tail(parts))

\* The value of a string of digits, "" counting as 0.
RECURSIVE NumOf(_)
NumOf(s) ==
    IF Len(s) = 0 THEN 0
    ELSE 10 * NumOf(SubSeq(s, 1, Len(s) - 1)) + DigitVal(s[Len(s)])

\* str(n) for an int n >= 0
RECURSIVE DigitsOf(_)
DigitsOf(n) ==
    IF n < 10 THEN <<Digits[n + 1]>>
    ELSE DigitsOf(n \div 10) \o <<Digits[(n % 10) + 1]>>

\* n as at least two digits (%02d)
TwoDigits(n) == (IF n < 10 THEN <<"0">> ELSE <<>>) \o DigitsOf(n)

\* A cell of a sheet or of an extracted table: empty (NaN in the DataFrame,
\* None in a pdfplumber table), a string, an int, or a datetime.
EmptyCell == [type |-> "empty", text |-> <<>>, num |-> 0]
StrCell(s) == [type |-> "str", text |-> s, num |-> 0]
IntCell(n) == [type |-> "int", text |-> <<>>, num |-> n]
DatetimeCell(d) == [type |-> "datetime", text |-> <<>>, num |-> d]

\* str(x) of a cell value
\* str(n) for an int n
IntStr(n) == IF n < 0 THEN <<"-">> \o DigitsOf(0 - n) ELSE DigitsOf(n)

\* str(d) for a datetime d at midnight
DatetimeStr(d) ==
    JoinSpace(<<DigitsOf(d \div 10000) \o <<"-">> \o TwoDigits((d \div 100) % 100)
                   \o <<"-">> \o TwoDigits(d % 100),
                <<"0", "0", ":", "0", "0", ":", "0", "0">>>>)

PyStr(cell) ==
    CASE cell.type = "str" -> cell.text
      [] cell.type = "empty" -> <<"n", "a", "n">>
      [] cell.type = "int" -> IntStr(cell.num)
      [] cell.type = "datetime" -> DatetimeStr(cell.num)

\* ------------------------------------------------------------------------
\* clean_amount
\* ------------------------------------------------------------------------

\* ''.join(c for c in amount_str if c.isdigit() or c == '.')
KeepDigitsAndPoint(s) == SelectSeq(s, LAMBDA c : IsDigit(c) \/ c = ".")

\* float(s) of a string of digits and points, in hundredths; -1 when float
\* raises ValueError (more than one point, or no digit).  Digits beyond the
\* second decimal are dropped.
Hundredths(whole, frac) == 100 * NumOf(whole) + NumOf(SubSeq(frac \o <<"0", "0">>, 1, 2))

FloatAt(s, points) ==
    IF Cardinality(points) > 1 \/ Cardinality(points) = Len(s)
    THEN -1
    ELSE IF points = {}
         THEN Hundredths(s, <<>>)
         ELSE Hundredths(SubSeq(s, 1, Min(points) - 1), SubSeq(s, Min(points) + 1, Len(s)))

ParseFloat(s) == FloatAt(s, {i \in 1..Len(s) : s[i] = "."})

\* float(amount_str) if amount_str else 0.0, and 0.0 from the except branch
\* when float raises
ZeroIfRaised(value) == IF value < 0 THEN 0 ELSE value
FloatOrZero(amount_str) == IF amount_str = <<>> THEN 0 ELSE ZeroIfRaised(ParseFloat(amount_str))

clean_amount(cell) ==
    CASE cell.type = "empty" -> 0
      [] cell.type = "str" /\ cell.text = <<>> -> 0
      [] cell.type = "int" -> 100 * cell.num
      [] OTHER ->
            FloatOrZero(KeepDigitsAndPoint(Strip(PyStr(cell))))

\* ------------------------------------------------------------------------
\* parse_date
\* ------------------------------------------------------------------------

\* s.split('/')
RECURSIVE SplitSlash(_)
SplitSlash(s) ==
    IF \A i \in 1..Len(s) : s[i] # "/"
    THEN <<s>>
    ELSE <<SubSeq(s, 1, Min({i \in 1..Len(s) : s[i] = "/"}) - 1)>>
            \o SplitSlash(SubSeq(s, Min({i \in 1..Len(s) : s[i] = "/"}) + 1, Len(s)))

AllDigits(s) == \A i \in 1..Len(s) : IsDigit(s[i])

IsLeap(y) == (y % 4 = 0 /\ y % 100 # 0) \/ y % 400 = 0

DaysInMonth(y, m) ==
    IF m = 2 THEN (IF IsLeap(y) THEN 29 ELSE 28)
    ELSE IF m \in {4, 6, 9, 11} THEN 30 ELSE 31

\* The date of day d, month m, year y; NoDate when there is no such day.
MakeDate(d, m, y) ==
    IF m \in 1..12 /\ y >= 1 /\ d >= 1 /\ d <= DaysInMonth(y, m)
    THEN y * 10000 + m * 100 + d
    ELSE NoDate

\* %y: two-digit years up to 68 are in 20xx, the others in 19xx
Century(yy) == IF yy <= 68 THEN 2000 + yy ELSE 1900 + yy

\* The fields f between the slashes read as %d, %m and %y (year_digits = 2)
\* or %Y (year_digits = 4): %d and %m take one or two digits, %y exactly
\* two, %Y exactly four, nothing may be left over.
DateOfFields(f, year_digits) ==
    IF Len(f) # 3 THEN NoDate
    ELSE IF ~(AllDigits(f[1]) /\ AllDigits(f[2]) /\ AllDigits(f[3])) THEN NoDate
    ELSE IF ~(Len(f[1]) \in {1, 2} /\ Len(f[2]) \in {1, 2} /\ Len(f[3]) = year_digits)
    THEN NoDate
    ELSE MakeDate(NumOf(f[1]), NumOf(f[2]),
                  IF year_digits = 4 THEN NumOf(f[3]) ELSE Century(NumOf(f[3])))

\* datetime.strptime(s, '%d/%m/%y') for year_digits = 2 and
\* datetime.strptime(s, '%d/%m/%Y') for year_digits = 4; NoDate for ValueError.
strptime(s, year_digits) == DateOfFields(SplitSlash(s), year_digits)

\* try the first format, on ValueError the second
FirstFormat(short_year, date_str) ==
    IF short_year # NoDate THEN short_year ELSE strptime(date_str, 4)

\* Mutant: only strings are looked at.
parse_date_strings_only(cell) ==
    CASE cell.type = "str" -> FirstFormat(strptime(Strip(cell.text), 2), Strip(cell.text))
      [] OTHER -> NoDate

parse_date(cell) ==
    CASE cell.type = "datetime" -> cell.num
      [] cell.type = "str" -> FirstFormat(strptime(Strip(cell.text), 2), Strip(cell.text))
      [] OTHER -> NoDate

\* ------------------------------------------------------------------------
\* parse_excel_statement
\* ------------------------------------------------------------------------
HeaderNotFoundMsg == "Could not find transaction table header"
EmptyStatementMsg == "No valid transactions found in the statement"

\* 'date' in row_text and 'narration' in row_text and
\* ('withdrawal' in row_text or 'debit' in row_text)
is_header_text(row_text) ==
    /\ Contains(row_text, <<"d", "a", "t", "e">>)
    /\ Contains(row_text, <<"n", "a", "r", "r", "a", "t", "i", "o", "n">>)
    /\ (Contains(row_text, <<"w", "i", "t", "h", "d", "r", "a", "w", "a", "l">>) \/ Contains(row_text, <<"d", "e", "b", "i", "t">>))

\* ' '.join(str(x).lower() for x in row.values)
excel_row_text(row) == JoinSpace([i \in 1..Len(row) |-> Lower(PyStr(row[i]))])

\* pd.read_excel: the first row of the sheet becomes the column labels, the
\* rows of the DataFrame are the rows under it.
read_excel(sheet) == [columns |-> sheet[1], rows |-> Tail(sheet)]

\* df.columns.str.strip().str.lower(): NaN for a label that is not a string
clean_columns(header) ==
    [i \in 1..Len(header) |->
        IF header[i].type = "str" THEN StrCell(Lower(Strip(header[i].text))) ELSE EmptyCell]

\* The tests of the column lookups, on one label.
ColumnTests ==
    [date |-> <<{<<"d", "a", "t", "e">>}, {<<"v", "a", "l", "u", "e">>}>>,
     narration |-> <<{<<"n", "a", "r", "r", "a", "t", "i", "o", "n">>}, {}>>,
     ref |-> <<{<<"r", "e", "f">>, <<"c", "h", "q">>}, {}>>,
     withdrawal |-> <<{<<"w", "i", "t", "h", "d", "r", "a", "w", "a", "l">>, <<"d", "e", "b", "i", "t">>}, {}>>,
     deposit |-> <<{<<"d", "e", "p", "o", "s", "i", "t">>, <<"c", "r", "e", "d", "i", "t">>}, {}>>,
     balance |-> <<{<<"b", "a", "l", "a", "n", "c", "e">>}, {}>>]

\* 'a' in col.lower() or 'b' in col.lower(), and 'c' not in col.lower()
column_test(col, test) ==
    /\ \E kw \in test[1] : Contains(Lower(col), kw)
    /\ \A kw \in test[2] : ~Contains(Lower(col), kw)

\* next(col for col in df.columns if <test>): the position of the first label
\* that passes, 0 when none does (StopIteration), -1 when a label that is not
\* a string comes first (AttributeError on col.lower()).
FirstHit(columns, hits) ==
    IF hits = {} THEN 0
    ELSE IF columns[Min(hits)].type # "str" THEN -1 ELSE Min(hits)

first_column(columns, test) ==
    FirstHit(columns, {i \in 1..Len(columns) :
                          columns[i].type # "str" \/ column_test(columns[i].text, test)})

ColumnOrder == <<"date", "narration", "ref", "withdrawal", "deposit", "balance">>

resolve_columns(columns) ==
    [field \in {ColumnOrder[k] : k \in 1..6} |-> first_column(columns, ColumnTests[field])]

is_summary_text(text) == Contains(Lower(text), <<"s", "t", "a", "t", "e", "m", "e", "n", "t", " ", "s", "u", "m", "m", "a", "r", "y">>)

\* Mutant: the comparisons are withdrawal >= 0.
make_transaction_zero_is_debit(date_obj, description, ref, withdrawal, deposit, balance) ==
    [date |-> date_obj,
     description |-> Strip(description),
     reference |-> Strip(ref),
     kind |-> IF withdrawal >= 0 THEN "debit" ELSE "credit",
     amount |-> IF withdrawal >= 0 THEN withdrawal ELSE deposit,
     balance |-> balance]

\* The transaction record built from the cells of one row.
make_transaction(date_obj, description, ref, withdrawal, deposit, balance) ==
    [date |-> date_obj,
     description |-> Strip(description),
     reference |-> Strip(ref),
     kind |-> IF withdrawal > 0 THEN "debit" ELSE "credit",
     amount |-> IF withdrawal > 0 THEN withdrawal ELSE deposit,
     balance |-> balance]

\* A row with a date cell that is not empty: skipped when the date does not
\* parse, a transaction otherwise.
excel_dated_row(st, row, col, narration, date_obj) ==
    IF date_obj = NoDate
    THEN st     \* continue
    ELSE [transactions |->
              Append(st.transactions,
                     make_transaction(date_obj,
                                      IF st.current_description # <<>>
                                      THEN st.current_description \o <<" ">> \o narration
                                      ELSE narration,
                                      PyStr(row[col.ref]),
                                      clean_amount(row[col.withdrawal]),
                                      clean_amount(row[col.deposit]),
                                      clean_amount(row[col.balance]))),
          current_description |-> <<>>]

\* The body of the loop for one row that is not a summary row.  st carries
\* the list of transactions and current_description.
excel_row(st, row, col, narration) ==
    IF row[col.date].type = "empty"
    THEN \* pd.isna(date_val): continue
         IF st.current_description # <<>>
         THEN [st EXCEPT !.current_description = @ \o <<" ">> \o narration]
         ELSE st
    ELSE excel_dated_row(st, row, col, narration, parse_date(row[col.date]))

\* The loop over the rows under the header, from row i on.
RECURSIVE excel_rows(_, _, _, _)
excel_rows(st, rows, col, i) ==
    IF i > Len(rows) THEN st
    ELSE IF is_summary_text(PyStr(rows[i][col.narration]))
         THEN st     \* break
         ELSE excel_rows(excel_row(st, rows[i], col, PyStr(rows[i][col.narration])),
                         rows, col, i + 1)

\* headers: for each table read, the position of the row taken as its
\* header, counted from 1 in the sheet or table, 0 when none was found.
ParseError(msg, headers) ==
    [outcome |-> "raised", error |-> msg, transactions |-> <<>>, headers |-> headers]

ParseResult(transactions, headers) ==
    IF transactions = <<>>
    THEN ParseError(EmptyStatementMsg, headers)
    ELSE [outcome |-> "ok", error |-> "none", transactions |-> transactions,
          headers |-> headers]

\* The columns are looked up in ColumnOrder; the first lookup that fails ends
\* the parse.
excel_columns_failed(col, failed, headers) ==
    ParseError(IF col[ColumnOrder[Min(failed)]] = 0 THEN "StopIteration" ELSE "AttributeError",
               headers)

\* The parse once the columns are looked up.
excel_below_header(rows, header_row, col) ==
    IF \E k \in 1..6 : col[ColumnOrder[k]] < 1
    THEN excel_columns_failed(col, {k \in 1..6 : col[ColumnOrder[k]] < 1}, <<header_row + 1>>)
    ELSE ParseResult(excel_rows([transactions |-> <<>>, current_description |-> <<>>],
                                SubSeq(rows, header_row + 1, Len(rows)), col, 1).transactions,
                     <<header_row + 1>>)

\* The parse of the rows of the DataFrame, found being the rows that pass the
\* header test: the first of them is the header.
excel_frame(rows, found) ==
    IF found = {}
    THEN ParseError(HeaderNotFoundMsg, <<0>>)
    ELSE excel_below_header(rows, Min(found),
                            resolve_columns(clean_columns(rows[Min(found)])))

parse_excel_statement(sheet) ==
    excel_frame(read_excel(sheet).rows,
                {i \in 1..Len(sheet) - 1 : is_header_text(excel_row_text(read_excel(sheet).rows[i]))})

\* ------------------------------------------------------------------------
\* parse_pdf_statement
\* ------------------------------------------------------------------------

\* [str(cell).strip() if cell is not None else '' for cell in row]
pdf_row(row) ==
    [i \in 1..Len(row) |-> IF row[i].type = "empty" THEN <<>> ELSE Strip(PyStr(row[i]))]

\* The body of the loop for one row under a header that is not a header
\* itself.  The cells are read at fixed positions: 0 date, 1 narration,
\* 2 reference, 4 withdrawal, 5 deposit, 6 balance (counted from 0 in the
\* code); a row too short for them raises IndexError, which skips the row.
pdf_data_row(st, row, date_obj) ==
    IF Len(row) < 7 THEN st
    ELSE IF row[1] = <<>> \/ is_summary_text(JoinSpace(row)) THEN st    \* continue
    ELSE IF date_obj = NoDate THEN st
    ELSE [st EXCEPT !.transactions =
             Append(@, make_transaction(date_obj, row[2], row[3],
                                        clean_amount(StrCell(row[5])),
                                        clean_amount(StrCell(row[6])),
                                        clean_amount(StrCell(row[7]))))]

\* The body of the loop for row i of a table.  st carries the list of
\* transactions, header_found and the position of the first header row.
pdf_table_row(st, row, i) ==
    IF is_header_text(Lower(JoinSpace(row)))
    THEN [st EXCEPT !.header_found = TRUE, !.header = IF st.header_found THEN @ ELSE i]
    ELSE IF ~st.header_found
         THEN st
         ELSE pdf_data_row(st, row, IF Len(row) < 1 THEN NoDate ELSE parse_date(StrCell(row[1])))

\* The loop over the rows of one table, from row i on.
RECURSIVE pdf_rows(_, _, _)
pdf_rows(st, table, i) ==
    IF i > Len(table) THEN st
    ELSE pdf_rows(pdf_table_row(st, pdf_row(table[i]), i), table, i + 1)

\* The result of one table added to that of the tables before it.
pdf_after_table(acc, st) ==
    [transactions |-> st.transactions, headers |-> Append(acc.headers, st.header)]

\* The loops over the pages and their tables, from table t on.
RECURSIVE pdf_tables(_, _, _)
pdf_tables(acc, tables, t) ==
    IF t > Len(tables) THEN acc
    ELSE pdf_tables(pdf_after_table(acc,
                        pdf_rows([transactions |-> acc.transactions,
                                  header_found |-> FALSE, header |-> 0],
                                 tables[t], 1)),
                    tables, t + 1)

PdfResult(acc) == ParseResult(acc.transactions, acc.headers)

parse_pdf_statement(tables) ==
    PdfResult(pdf_tables([transactions |-> <<>>, headers |-> <<>>], tables, 1))

\* ------------------------------------------------------------------------
\* Documents
\* ------------------------------------------------------------------------

\* Rows in the layout of the bank's statements: date, narration, reference,
\* value date, withdrawal, deposit, closing balance.
HeaderRow == <<StrCell(<<"D", "a", "t", "e">>), StrCell(<<"N", "a", "r", "r", "a", "t", "i", "o", "n">>), StrCell(<<"C", "h", "q", ".", "/", "R", "e", "f", ".", "N", "o", ".">>),
               StrCell(<<"V", "a", "l", "u", "e", " ", "D", "t">>), StrCell(<<"W", "i", "t", "h", "d", "r", "a", "w", "a", "l", " ", "A", "m", "t", ".">>),
               StrCell(<<"D", "e", "p", "o", "s", "i", "t", " ", "A", "m", "t", ".">>), StrCell(<<"C", "l", "o", "s", "i", "n", "g", " ", "B", "a", "l", "a", "n", "c", "e">>)>>

TitleRow == <<StrCell(<<"H", "D", "F", "C", " ", "B", "A", "N", "K", " ", "L", "t", "d", ".">>), EmptyCell, EmptyCell, EmptyCell,
              EmptyCell, EmptyCell, EmptyCell>>

RentRow == <<StrCell(<<"0", "1", "/", "0", "2", "/", "2", "4">>), StrCell(<<"R", "e", "n", "t">>), StrCell(<<"R", "E", "F", "1">>),
             StrCell(<<"0", "1", "/", "0", "2", "/", "2", "4">>), IntCell(1000), IntCell(0), IntCell(5000)>>

ContinuationRow == <<EmptyCell, StrCell(<<"(", "c", "o", "n", "t", "'", "d", ")", " ", "p", "a", "i", "d", " ", "l", "a", "t", "e">>), EmptyCell,
                     EmptyCell, IntCell(0), IntCell(0), IntCell(5000)>>

SummaryRow == <<EmptyCell, StrCell(<<"S", "T", "A", "T", "E", "M", "E", "N", "T", " ", "S", "U", "M", "M", "A", "R", "Y", " ", ":", "-">>), EmptyCell, EmptyCell,
                EmptyCell, EmptyCell, EmptyCell>>

SalaryRow == <<StrCell(<<"0", "5", "/", "0", "2", "/", "2", "0", "2", "4">>), StrCell(<<"S", "a", "l", "a", "r", "y">>), StrCell(<<"R", "E", "F", "2">>),
               StrCell(<<"0", "5", "/", "0", "2", "/", "2", "0", "2", "4">>), EmptyCell, StrCell(<<"1", ",", "2", "3", "4", ".", "5", "6">>),
               StrCell(<<"6", ",", "2", "3", "4", ".", "5", "6">>)>>

BadDateRow == <<StrCell(<<"2", "0", "2", "4", "-", "0", "2", "-", "0", "7">>), StrCell(<<"T", "e", "a">>), StrCell(<<"R", "E", "F", "3">>),
                StrCell(<<"2", "0", "2", "4", "-", "0", "2", "-", "0", "7">>), StrCell(<<"2", "0", ".", "0", "0">>), EmptyCell,
                StrCell(<<"6", ",", "2", "1", "4", ".", "5", "6">>)>>

\* Values of an amount cell: empty, the empty string, numbers, and strings
\* with separators, a currency, a sign, two points, no digit.
AmountCells ==
    {EmptyCell, StrCell(<<>>), IntCell(0), IntCell(1000), IntCell(-500),
     StrCell(<<"1", ",", "2", "3", "4", ".", "5", "6", " ", "I", "N", "R">>), StrCell(<<"-", "5", "0", "0", ".", "0", "0">>),
     StrCell(<<"1", ".", "2", ".", "3">>), StrCell(<<"I", "N", "R">>), StrCell(<<".">>)}

AmountRow(w, d, b) ==
    <<StrCell(<<"0", "3", "/", "0", "2", "/", "2", "4">>), StrCell(<<"F", "e", "e">>), StrCell(<<"R", "E", "F", "5">>), StrCell(<<"0", "3", "/", "0", "2", "/", "2", "4">>), w, d, b>>

AmountRows ==
    {AmountRow(w, d, IntCell(5000)) : w \in AmountCells, d \in AmountCells}
        \cup {AmountRow(IntCell(1000), EmptyCell, b) : b \in AmountCells}

\* Values of a date cell: the two formats, another format, a day that does
\* not exist, a datetime (a date cell of a sheet), a number, empty.
DateCells ==
    {StrCell(<<"0", "1", "/", "0", "2", "/", "2", "4">>), StrCell(<<"0", "5", "/", "0", "2", "/", "2", "0", "2", "4">>), StrCell(<<"2", "0", "2", "4", "-", "0", "2", "-", "0", "7">>),
     StrCell(<<"3", "1", "/", "0", "2", "/", "2", "4">>), DatetimeCell(20240210), IntCell(45000), EmptyCell}

DateRow(c) ==
    <<c, StrCell(<<"F", "u", "e", "l">>), StrCell(<<"R", "E", "F", "4">>), c, IntCell(300), EmptyCell, IntCell(4700)>>

\* Headers other than HeaderRow: the value date before the transaction
\* date, no deposit label, two balance labels, a label that is a number.
ValueDateFirstHeader ==
    [HeaderRow EXCEPT ![1] = StrCell(<<"V", "a", "l", "u", "e", " ", "D", "a", "t", "e">>), ![4] = StrCell(<<"D", "a", "t", "e">>)]
NoDepositHeader == [HeaderRow EXCEPT ![6] = StrCell(<<"A", "m", "o", "u", "n", "t">>)]
TwoBalanceHeader == [HeaderRow EXCEPT ![4] = StrCell(<<"O", "p", "e", "n", "i", "n", "g", " ", "B", "a", "l", "a", "n", "c", "e">>)]
NumberLabelHeader == [HeaderRow EXCEPT ![3] = IntCell(3)]

\* A row whose value date is the day after its transaction date.
SettledRow == [RentRow EXCEPT ![4] = StrCell(<<"0", "2", "/", "0", "2", "/", "2", "4">>)]

HeaderKinds == {HeaderRow, ValueDateFirstHeader, NoDepositHeader, TwoBalanceHeader,
                NumberLabelHeader}

RowKinds == {HeaderRow, TitleRow, RentRow, ContinuationRow, SummaryRow, SalaryRow, BadDateRow}

RowSeqs == UNION {[1..n -> RowKinds] : n \in 1..MaxRows}

\* A document is a sequence of tables: the sheets of a workbook, or the
\* tables pdfplumber extracts page after page.  One table, or MaxRows rows
\* broken into two tables.
SplitAt == MaxRows \div 2

Documents ==
    {<<rows>> : rows \in RowSeqs} \cup
    {<<SubSeq(rows, 1, SplitAt), SubSeq(rows, SplitAt + 1, MaxRows)>> :
        rows \in {r \in RowSeqs : Len(r) = MaxRows}} \cup
    {<<<<TitleRow, HeaderRow, r>>>> : r \in AmountRows} \cup
    {<<<<TitleRow, HeaderRow, DateRow(c1), DateRow(c2)>>>> : c1 \in DateCells, c2 \in DateCells} \cup
    {<<<<TitleRow, h, SettledRow, SalaryRow>>>> : h \in HeaderKinds}

\* process_bank_statement hands the file to parse_excel_statement, which
\* reads the first sheet.
ParseExcel ==
    /\ parsed.op = "none"
    /\ parsed' = [op |-> "excel"] @@ parse_excel_statement(doc[1])
    /\ UNCHANGED <<db, saved, in_txn, last, doc>>

\* process_bank_statement hands the file to parse_pdf_statement.
ParsePdf ==
    /\ parsed.op = "none"
    /\ parsed' = [op |-> "pdf"] @@ parse_pdf_statement(doc)
    /\ UNCHANGED <<db, saved, in_txn, last, doc>>

\* row['date'].strftime('%Y-%m-%d')
strftime(date) ==
    (IF date \div 10000 < 1000 THEN <<"0">> ELSE <<>>)
        \o (IF date \div 10000 < 100 THEN <<"0">> ELSE <<>>)
        \o (IF date \div 10000 < 10 THEN <<"0">> ELSE <<>>)
        \o DigitsOf(date \div 10000)
        \o <<"-">> \o TwoDigits((date \div 100) % 100) \o <<"-">> \o TwoDigits(date % 100)

\* The values process_bank_statement binds for the rows of the DataFrame the
\* parser returned.
statement_rows(transactions) ==
    [i \in 1..Len(transactions) |->
        [date |-> strftime(transactions[i].date),
         description |-> transactions[i].description,
         amount |-> transactions[i].amount,
         kind |-> transactions[i].kind]]

\* Mutant: the except branch raises again instead of returning.
process_file_reraises(d, s, t, p, fault) ==
    IF p.outcome = "raised"
    THEN [db |-> d, saved |-> s, in_txn |-> t, outcome |-> "raised", error |-> p.error,
          added |-> 0, dups |-> 0]
    ELSE process_bank_statement(d, s, t, statement_rows(p.transactions), fault)

\* process_bank_statement from the file on, p being what the parser returned
\* or raised for it.  What the parser raises is caught by the except branch
\* before any statement reaches the store: return False, str(e).
process_file(d, s, t, p, fault) ==
    IF p.outcome = "raised"
    THEN [db |-> d, saved |-> s, in_txn |-> t, outcome |-> "failed", error |-> p.error,
          added |-> 0, dups |-> 0]
    ELSE process_bank_statement(d, s, t, statement_rows(p.transactions), fault)

\* The call process_bank_statement(file, file_type) with what it leaves in
\* the store and what it returns.
IngestParsed(file_type, p, r) ==
    /\ parsed' = [op |-> file_type] @@ p
    /\ db' = r.db
    /\ saved' = r.saved
    /\ in_txn' = r.in_txn
    /\ last' = [NoCall EXCEPT !.op = "ingest", !.outcome = r.outcome, !.error = r.error,
                              !.added = r.added, !.dups = r.dups]
    /\ UNCHANGED doc

IngestFile(file_type, p, fault) ==
    IngestParsed(file_type, p, process_file(db, saved, in_txn, p, fault))

\* file_type 'pdf' goes to the PDF parser, every other one to the
\* spreadsheet parser.  fault is the row whose INSERT raises, 0 for none.
IngestExcel(fault) ==
    /\ parsed.op = "none"
    /\ IngestFile("excel", parse_excel_statement(doc[1]), fault)

IngestPdf(fault) ==
    /\ parsed.op = "none"
    /\ IngestFile("pdf", parse_pdf_statement(doc), fault)

\* The parser keeps no state: a run is one document and one parse of it.
ParserInit ==
    /\ db = EmptyDb
    /\ saved = EmptyDb
    /\ in_txn = FALSE
    /\ last = NoCall
    /\ doc \in Documents
    /\ parsed = NotParsed

ParserNext ==
    \/ ParseExcel
    \/ ParsePdf
    \/ \E fault \in 0..(MaxRows - 1) : IngestExcel(fault)
    \/ \E fault \in 0..(MaxRows - 1) : IngestPdf(fault)

ParserSpec == ParserInit /\ [][ParserNext]_vars

\* ------------------------------------------------------------------------
\* Definitions the properties share
\* ------------------------------------------------------------------------

\* Bank transaction b is referenced by an accepted ValidationRecord of d.
Consumed(d, b) == \E v \in d.vals : v.accepted /\ v.bank = b

BankDebits(d) == {r \in d.txns : r.source = "bank_statement" /\ r.kind = "debit"}

MatchIds(d, amount, date, tol) == {r.id : r \in find_matching_transactions(d, amount, date, tol)}

\* b is in no result of find_matching_transactions on d.
Absent(d, b) ==
    \A a \in Amounts, dt \in Dates, t \in Tolerances : b \notin MatchIds(d, a, dt, t)

Key(x) == <<x.date, x.description, x.amount, x.kind>>

\* ------------------------------------------------------------------------
\* C1: no bank transaction is referenced by more than one accepted
\* ValidationRecord, also after validate was called twice with one bank id.
\* The code checks nothing before the INSERT, so this is violated.
\* ------------------------------------------------------------------------
C1_AtMostOneAcceptedPerBankTxn ==
    \A r \in {x \in db.txns : x.source = "bank_statement"} :
        Cardinality({v \in db.vals : v.accepted /\ v.bank = r.id}) <= 1

\* ------------------------------------------------------------------------
\* C2: find_matches never returns a bank transaction that an accepted
\* ValidationRecord of the same state references: not for any amount, date
\* and tolerance, not in the result a call returned, and in particular not
\* the bank id of the validate(manual_id, bank_id, True) just recorded.
\* ------------------------------------------------------------------------
C2_NeverReturnsConsumed ==
    /\ \A a \in Amounts, dt \in Dates, t \in Tolerances :
          \A r \in find_matching_transactions(db, a, dt, t) : ~Consumed(db, r.id)
    /\ last.op \in {"find_matches", "add_manual"} =>
          \A r \in last.matches : ~Consumed(db, r.id)
    /\ (last.op = "validate" /\ last.outcome = "ok" /\ last.accepted /\ last.bank # NULL) =>
          Absent(db, last.bank)

\* validate has just accepted a bank debit that the query would return otherwise.
C2_Witness ==
    /\ last.op = "validate" /\ last.outcome = "ok" /\ last.accepted
    /\ \E r \in BankDebits(db) :
          /\ r.id = last.bank
          /\ r \in find_matching_transactions_no_exclusion(db, r.amount, r.date, DefaultTolerance)

ExpectedMatches(d, amount, date, tol) ==
    {r \in d.txns :
        /\ r.source = "bank_statement"
        /\ r.kind = "debit"
        /\ r.amount = amount
        /\ date - tol <= r.date
        /\ r.date <= date + tol
        /\ ~Consumed(d, r.id)}

C4_ExactCandidateSet ==
    /\ \A a \in Amounts, dt \in Dates, t \in Tolerances :
          find_matching_transactions(db, a, dt, t) = ExpectedMatches(db, a, dt, t)
    /\ (last.op = "find_matches" /\ last.outcome = "ok") =>
          last.matches = ExpectedMatches(db, last.amount, last.date, last.tol)

\* A call returned a row dated exactly tolerance_days away from its date and
\* left out another bank debit of the store.
C4_Witness ==
    /\ last.op = "find_matches" /\ last.outcome = "ok"
    /\ \E r \in last.matches :
          r.date = last.date + last.tol \/ r.date = last.date - last.tol
    /\ \E x \in BankDebits(db) : x \notin last.matches

\* ------------------------------------------------------------------------
\* C5: every accepted ValidationRecord references an existing transaction
\* with source = bank_statement and kind = debit.  The code stores whatever
\* id it is given, None included, so this is violated.
\* ------------------------------------------------------------------------
C5_AcceptedRefersToBankDebit ==
    \A v \in db.vals :
        v.accepted => /\ v.bank # NULL
                      /\ \E r \in BankDebits(db) : r.id = v.bank

\* ------------------------------------------------------------------------
\* C6: a declined validate excludes no bank transaction: every find_matches
\* result is the same after it as before, the declined candidate included.
\* ------------------------------------------------------------------------
C6_DeclineExcludesNothing ==
    [][(last'.op = "validate" /\ last'.outcome = "ok" /\ ~last'.accepted) =>
          \A a \in Amounts, dt \in Dates, t \in Tolerances :
             /\ find_matching_transactions(db', a, dt, t) = find_matching_transactions(db, a, dt, t)
             /\ last'.bank \in MatchIds(db, a, dt, t) => last'.bank \in MatchIds(db', a, dt, t)]_vars

\* A candidate was declined and a search still returns it.
C6_Witness ==
    /\ last.op = "validate" /\ last.outcome = "ok" /\ ~last.accepted
    /\ last.bank # NULL
    /\ \E a \in Amounts, dt \in Dates : last.bank \in MatchIds(db, a, dt, DefaultTolerance)

\* ------------------------------------------------------------------------
\* C7: ingest is idempotent: from any store state, ingesting a statement a
\* second time adds nothing, counts every incoming row as a duplicate and
\* leaves the rows as they were.
\* ------------------------------------------------------------------------
C7_IngestIdempotent ==
    \A stmt \in Statements :
        LET r1 == process_bank_statement(db, saved, in_txn, stmt, 0)
            r2 == process_bank_statement(r1.db, r1.saved, r1.in_txn, stmt, 0)
        IN /\ r1.outcome = "ok" /\ r2.outcome = "ok"
           /\ r2.added = 0
           /\ r2.dups = Len(stmt)
           /\ r2.db = r1.db
           /\ r2.saved = r1.saved

\* An ingest of a statement of MaxStmtLen rows found all of them in the store.
C7_Witness ==
    /\ last.op = "ingest" /\ last.outcome = "ok"
    /\ last.added = 0 /\ last.dups = MaxStmtLen
    /\ Cardinality(db.txns) = MaxStmtLen

\* ------------------------------------------------------------------------
\* C8: ingest skips and counts an incoming row exactly when a row with the
\* same (date, description, amount, kind) is in the store at that moment,
\* whatever its source, and otherwise inserts it with source
\* bank_statement: added_count + duplicate_count is the number of incoming
\* rows, the row count grows by added_count, and the rows added are one per
\* key of the statement that the store did not hold.
\* ------------------------------------------------------------------------
IngestPostcondition(before, stmt, r) ==
    LET new == r.db.txns \ before.txns
        oldKeys == {Key(x) : x \in before.txns}
        stmtKeys == {Key(stmt[i]) : i \in 1..Len(stmt)}
    IN /\ r.outcome = "ok"
       /\ r.added + r.dups = Len(stmt)
       /\ before.txns \subseteq r.db.txns
       /\ Cardinality(r.db.txns) = Cardinality(before.txns) + r.added
       /\ \A x \in new : x.source = "bank_statement"
       /\ {Key(x) : x \in new} = stmtKeys \ oldKeys
       /\ r.added = Cardinality(stmtKeys \ oldKeys)
       /\ r.db.vals = before.vals

C8_IngestSkipsExactDuplicates ==
    /\ [](\A stmt \in Statements :
             IngestPostcondition(db, stmt, process_bank_statement(db, saved, in_txn, stmt, 0)))
    /\ [][(last'.op = "ingest" /\ last'.outcome = "ok") =>
             /\ last'.added + last'.dups \in 1..MaxStmtLen
             /\ db.txns \subseteq db'.txns
             /\ Cardinality(db'.txns) = Cardinality(db.txns) + last'.added
             /\ \A x \in db'.txns \ db.txns :
                   /\ x.source = "bank_statement"
                   /\ ~\E y \in db.txns : Key(y) = Key(x)]_vars

\* An ingest into a store holding a manual row added one row and skipped one.
C8_Witness ==
    /\ last.op = "ingest" /\ last.outcome = "ok"
    /\ last.added = 1 /\ last.dups = 1
    /\ \E m \in db.txns, b \in db.txns :
          m.source = "manual" /\ b.source = "bank_statement" /\ Key(m) # Key(b)

\* ------------------------------------------------------------------------
\* C9: delete_manual of a bank_statement transaction reports the NotManual
\* failure and changes neither the transactions nor the ValidationRecords.
\* The code sends ROLLBACK from its except branch, so this is violated.
\* ------------------------------------------------------------------------
C9_DeleteBankRowRejectedUnchanged ==
    [][(/\ last'.op = "delete_manual"
        /\ \E r \in db.txns : r.id = last'.id /\ r.source = "bank_statement") =>
          /\ last'.outcome = "failed"
          /\ last'.error = "NotManual"
          /\ db'.txns = db.txns
          /\ db'.vals = db.vals]_vars

\* ------------------------------------------------------------------------
\* C10: delete_manual of a manual transaction is all or nothing: when it
\* returns, the row and every ValidationRecord referencing it as manual
\* transaction are gone, or the row and all those records are as before.
\* ------------------------------------------------------------------------
C10_DeleteAllOrNothing ==
    [][\A r \in db.txns :
          (last'.op = "delete_manual" /\ last'.id = r.id /\ r.source = "manual") =>
             LET refs(d) == {v \in d.vals : v.manual = r.id}
             IN /\ ~in_txn'
                /\ saved' = db'
                /\ \/ /\ last'.outcome = "ok"
                      /\ ~\E x \in db'.txns : x.id = r.id
                      /\ refs(db') = {}
                   \/ /\ last'.outcome = "failed"
                      /\ r \in db'.txns
                      /\ refs(db') = refs(db)]_vars

\* A delete failed at its second DELETE and the validations are still there.
C10_Witness ==
    /\ last.op = "delete_manual" /\ last.outcome = "failed" /\ last.error = "store"
    /\ \E r \in db.txns : r.id = last.id /\ r.source = "manual"
    /\ \E v \in db.vals : v.manual = last.id

\* ------------------------------------------------------------------------
\* C11: the rows of an ingest that failed part-way are neither visible nor
\* persisted: a failed ingest leaves no new row in what reads return, and
\* what a call commits is what that call itself inserted.  The except
\* branch of process_bank_statement rolls nothing back, so this is violated.
\* ------------------------------------------------------------------------
C11_PartialIngestNotVisible ==
    [][/\ (last'.op = "ingest" /\ last'.outcome = "failed") => db'.txns \subseteq db.txns
       /\ (saved'.txns \ saved.txns) \subseteq (db'.txns \ db.txns)]_vars

\* ------------------------------------------------------------------------
\* C12: an add_manual that raises leaves the store as it was before the
\* call, in what reads return and in what is committed.  The rollback of
\* the except branch also discards the rows a failed ingest left pending,
\* so this is violated.
\* ------------------------------------------------------------------------
C12_FailedAddManualLeavesStore ==
    [][(last'.op = "add_manual" /\ last'.outcome = "raised") =>
          /\ last'.error \in {"IntegrityError", "ValueError"}
          /\ db' = db
          /\ saved' = saved]_vars

\* ------------------------------------------------------------------------
\* C13: a successful add_manual inserts exactly one row, with source manual
\* and the returned id, and commits it; the candidates it returns are the
\* find_matches result for the row's amount and date with the default
\* tolerance on the store at that moment when the kind is debit, none when
\* it is credit; the new row is not among them.
\* ------------------------------------------------------------------------
C13_AddManualInsertsOneAndSearches ==
    [][(last'.op = "add_manual" /\ last'.outcome = "ok") =>
          \E r \in db'.txns :
             /\ r \notin db.txns
             /\ db'.txns = db.txns \cup {r}
             /\ saved' = db'
             /\ r.source = "manual"
             /\ r.id = last'.id
             /\ \A x \in db.txns : x.id # r.id
             /\ last'.matches = IF r.kind = "debit"
                                THEN ExpectedMatches(db', r.amount, r.date, DefaultTolerance)
                                ELSE {}
             /\ r.kind = "debit" =>
                   last'.matches = ExpectedMatches(db, r.amount, r.date, DefaultTolerance)
             /\ r \notin last'.matches]_vars

\* add_manual of a debit returned a candidate.
C13_Witness ==
    /\ last.op = "add_manual" /\ last.outcome = "ok"
    /\ last.matches # {}
    /\ \E r \in db.txns : r.id = last.id /\ r.source = "manual" /\ r.kind = "debit"

\* ------------------------------------------------------------------------
\* C14: after delete_manual(id) succeeds no ValidationRecord with manual
\* reference id remains, and the ValidationRecords of other manual
\* transactions are exactly those from before the call.
\* ------------------------------------------------------------------------
C14_DeleteCascadesOwnValidationsOnly ==
    [][(last'.op = "delete_manual" /\ last'.outcome = "ok") =>
          /\ ~\E v \in db'.vals : v.manual = last'.id
          /\ db'.vals = {v \in db.vals : v.manual # last'.id}
          /\ saved'.vals = db'.vals]_vars

\* A delete removed a ValidationRecord and left that of another manual transaction.
C14_Witness ==
    /\ last.op = "delete_manual" /\ last.outcome = "ok"
    /\ db.vals # {}
    /\ Cardinality(db.vals) < db.seqV
    /\ \A v \in db.vals : v.manual # last.id

\* ------------------------------------------------------------------------
\* C15: a bank_statement row that an ingest committed stays in the store
\* with all its fields, whatever add_manual, validate, delete_manual (with
\* any id) or ingest call follows; every committed row that a call removes
\* has source manual.
\* ------------------------------------------------------------------------
C15_BankRowsImmutable ==
    [][/\ \A r \in saved.txns :
             r.source = "bank_statement" => (r \in saved'.txns /\ r \in db'.txns)
       /\ \A r \in saved.txns \ saved'.txns : r.source = "manual"]_vars

\* delete_manual was called with the id of a committed bank row, which is still there.
C15_Witness ==
    /\ last.op = "delete_manual"
    /\ \E r \in saved.txns : r.source = "bank_statement" /\ r.id = last.id /\ r \in db.txns

\* ------------------------------------------------------------------------
\* C16: once a manual transaction has an accepted ValidationRecord, no later
\* call adds another ValidationRecord, accepted or declined, for it.
\* validate_expense inserts without looking anything up, so this is violated.
\* ------------------------------------------------------------------------
C16_NoRecordAfterAccepted ==
    [][\A v \in db.vals :
          (v.accepted /\ \E m \in db.txns : m.id = v.manual /\ m.source = "manual" /\ m.kind = "debit") =>
             {w \in db'.vals : w.manual = v.manual} \subseteq db.vals]_vars

\* ------------------------------------------------------------------------
\* C17: validate(manual_id, bank_id, True) on a bank_id that an accepted
\* ValidationRecord already references fails with AlreadyMatchedError and
\* creates no ValidationRecord.  The code has no such check, so this is
\* violated.
\* ------------------------------------------------------------------------
C17_AlreadyMatchedRejected ==
    [][(/\ last'.op = "validate" /\ last'.accepted
        /\ last'.bank # NULL /\ Consumed(db, last'.bank)) =>
          /\ last'.outcome = "raised"
          /\ last'.error = "AlreadyMatchedError"
          /\ db'.vals = db.vals]_vars

\* ------------------------------------------------------------------------
\* Definitions the parser properties share
\* ------------------------------------------------------------------------

\* The rows the parse read, in document order: the first sheet of a
\* workbook, every table of a PDF.
RECURSIVE Concat(_)
Concat(tables) == IF Len(tables) = 0 THEN <<>> ELSE tables[1] \o Concat(Tail(tables))

TablesRead == IF parsed.op = "excel" THEN <<doc[1]>> ELSE doc

\* In the layout of the documents the date is the first cell of a row and
\* the narration the second.
IsDatedRow(row) == row[1].type # "empty" /\ parse_date(row[1]) # NoDate
HasSummaryMarker(row) == is_summary_text(PyStr(row[2]))
IsContinuationRow(row) == row[1].type = "empty" /\ ~HasSummaryMarker(row)
QualifiesAsHeader(row) == is_header_text(excel_row_text(row))

\* locate_header of the specification: the first qualifying row, 0 for none.
LocateHeader(rows) ==
    IF \E i \in 1..Len(rows) : QualifiesAsHeader(rows[i])
    THEN Min({i \in 1..Len(rows) : QualifiesAsHeader(rows[i])})
    ELSE 0

\* The narrations of the continuation rows from row i on.
RECURSIVE ContinuationTexts(_, _)
ContinuationTexts(rows, i) ==
    IF i > Len(rows) THEN <<>>
    ELSE IF ~IsContinuationRow(rows[i]) THEN <<>>
    ELSE <<PyStr(rows[i][2])>> \o ContinuationTexts(rows, i + 1)

ExtendedDescription(rows, i) == JoinSpace(<<PyStr(rows[i][2])>> \o ContinuationTexts(rows, i + 1))

\* ------------------------------------------------------------------------
\* C18: a dated row under the header that continuation rows follow yields a
\* transaction whose description is its narration and theirs, space-joined
\* in row order, and the continuation rows yield no transaction of their
\* own.  The spreadsheet parser never fills current_description and the PDF
\* parser skips rows with an empty date, so this is violated.
\* ------------------------------------------------------------------------
C18_ContinuationExtendsPriorRow ==
    (parsed.op # "none" /\ parsed.outcome = "ok") =>
       /\ \A t \in 1..Len(TablesRead) : \A i \in 1..(Len(TablesRead[t]) - 1) :
             (/\ parsed.headers[t] \in 1..(i - 1)
              /\ IsDatedRow(TablesRead[t][i])
              /\ IsContinuationRow(TablesRead[t][i + 1])
              /\ ~\E j \in 1..Len(Concat(TablesRead)) : HasSummaryMarker(Concat(TablesRead)[j])) =>
                \E k \in 1..Len(parsed.transactions) :
                   parsed.transactions[k].description = ExtendedDescription(TablesRead[t], i)
       /\ Len(parsed.transactions) <=
             Cardinality({j \in 1..Len(Concat(TablesRead)) : IsDatedRow(Concat(TablesRead)[j])})

\* ------------------------------------------------------------------------
\* C19: the row taken as header is the first row of the table, its very
\* first row included, that passes the header test, and transactions come
\* from rows below it only; when no row passes, the parse raises the
\* header-not-found error and yields no transaction, for a spreadsheet and
\* a PDF alike.  pd.read_excel takes the first row of the sheet as column
\* labels, so the scan never sees it, and the PDF parser reports an empty
\* statement instead, so this is violated.
\* ------------------------------------------------------------------------
C19_HeaderIsFirstQualifyingRow ==
    parsed.op # "none" =>
       /\ \A t \in 1..Len(TablesRead) : parsed.headers[t] = LocateHeader(TablesRead[t])
       /\ (Len(TablesRead) = 1 /\ LocateHeader(TablesRead[1]) > 0) =>
             Len(parsed.transactions) <= Len(TablesRead[1]) - LocateHeader(TablesRead[1])
       /\ (\A t \in 1..Len(TablesRead) : LocateHeader(TablesRead[t]) = 0) =>
             /\ parsed.outcome = "raised"
             /\ parsed.error = HeaderNotFoundMsg
             /\ parsed.transactions = <<>>

\* ------------------------------------------------------------------------
\* C20: no row positioned after the first row under the header whose
\* narration contains the statement-summary marker yields a transaction, in
\* either format and across the tables of the document: the transactions
\* are at most the dated rows before that row.  The PDF parser skips the
\* summary row and goes on, so this is violated.
\* ------------------------------------------------------------------------
C20_SummaryEndsProcessing ==
    parsed.op # "none" =>
       \A t \in 1..Len(TablesRead) : \A s \in 1..Len(TablesRead[t]) :
          (/\ LocateHeader(TablesRead[t]) \in 1..(s - 1)
           /\ HasSummaryMarker(TablesRead[t][s])) =>
             Len(parsed.transactions) <=
                Cardinality({i \in 1..Len(Concat(SubSeq(TablesRead, 1, t - 1))) :
                                IsDatedRow(Concat(SubSeq(TablesRead, 1, t - 1))[i])})
                + Cardinality({i \in 1..(s - 1) : IsDatedRow(TablesRead[t][i])})

\* ------------------------------------------------------------------------
\* C21: process_bank_statement returns for every document: what the parser
\* raises (no header, no column, no transaction) and what the store raises
\* comes back as a failure with its message and never propagates; when it
\* returns success, the parse succeeded, nothing is left pending, and every
\* parsed transaction is in the committed store as a bank_statement row.
\* ------------------------------------------------------------------------
C21_FailuresReturnedNotRaised ==
    [][last'.op = "ingest" =>
          /\ last'.outcome \in {"ok", "failed"}
          /\ last'.outcome = "failed" => last'.error # "none"
          /\ parsed'.outcome = "raised" =>
                (last'.outcome = "failed" /\ last'.error = parsed'.error /\ saved' = saved)
          /\ last'.outcome = "ok" =>
                /\ parsed'.outcome = "ok"
                /\ ~in_txn'
                /\ saved' = db'
                /\ last'.added + last'.dups = Len(parsed'.transactions)
                /\ \A k \in 1..Len(parsed'.transactions) :
                      \E r \in saved'.txns :
                         /\ r.source = "bank_statement"
                         /\ Key(r) = Key(statement_rows(parsed'.transactions)[k])]_vars

\* The parser raised for the document and the ingest returned the failure.
C21_Witness ==
    /\ last.op = "ingest" /\ last.outcome = "failed"
    /\ parsed.outcome = "raised" /\ last.error = parsed.error
    /\ db = EmptyDb

\* ------------------------------------------------------------------------
\* C22: for a document with a row that qualifies as header, the parse
\* returns at least one transaction or raises the empty-statement error; it
\* never returns an empty sequence, and when it raises, the ingest leaves
\* nothing in the store.  A spreadsheet whose header is its first row is
\* refused with the header-not-found error (C19), so this is violated.
\* ------------------------------------------------------------------------
C22_TransactionsOrEmptyStatementError ==
    parsed.op # "none" =>
       /\ (\E t \in 1..Len(TablesRead) : LocateHeader(TablesRead[t]) > 0) =>
             \/ parsed.outcome = "ok" /\ Len(parsed.transactions) >= 1
             \/ parsed.outcome = "raised" /\ parsed.error = EmptyStatementMsg
       /\ parsed.outcome = "ok" => parsed.transactions # <<>>
       /\ parsed.outcome = "raised" => (db = EmptyDb /\ saved = EmptyDb /\ ~in_txn)

\* The rows of the document with a date the parser accepts, in document
\* order.  When the parse returned as many transactions as there are such
\* rows, its k-th transaction comes from the k-th of them.
DatedRows == SelectSeq(Concat(TablesRead), IsDatedRow)

\* The columns of the document are those of HeaderRow.
StandardLayout ==
    \A j \in 1..Len(Concat(TablesRead)) :
       Concat(TablesRead)[j] \notin (HeaderKinds \ {HeaderRow})

EveryDatedRowEmitted ==
    parsed.op # "none" /\ StandardLayout /\ Len(parsed.transactions) = Len(DatedRows)

\* The amount rule of the specification: None and the empty string give 0;
\* otherwise every character of the value that is not a digit or a decimal
\* point is deleted and the rest is read as a decimal, 0 when it is empty or
\* not a decimal.
CleanedAmount(cell) ==
    IF cell.type = "empty" THEN 0 ELSE FloatOrZero(KeepDigitsAndPoint(PyStr(cell)))

\* ------------------------------------------------------------------------
\* C23: the cleaned value of every cell is what the amount rule gives (seen
\* on the balance of the transactions, which is the cleaned balance cell).
\* clean_amount returns a cell that is a number as it is, so a negative
\* number keeps its sign: this is violated.
\* ------------------------------------------------------------------------
C23_CleanAmountDeletesAndParses ==
    EveryDatedRowEmitted =>
       \A k \in 1..Len(DatedRows) :
          parsed.transactions[k].balance = CleanedAmount(DatedRows[k][7])

\* ------------------------------------------------------------------------
\* C24: every transaction the parser emits and every transaction in the
\* store after an ingest has an amount >= 0 and a kind that is debit or
\* credit, whatever the withdrawal and deposit cells hold.  A deposit cell
\* that is a negative number comes through clean_amount with its sign (C23)
\* and is emitted and stored as a credit of that amount: this is violated.
\* ------------------------------------------------------------------------
C24_AmountNonNegativeKindKnown ==
    /\ \A k \in 1..Len(parsed.transactions) :
          parsed.transactions[k].amount >= 0 /\ parsed.transactions[k].kind \in Kinds
    /\ \A r \in db.txns \cup saved.txns : r.amount >= 0 /\ r.kind \in Kinds

\* The cleaned value of a cell on the path of the parse: the PDF parser
\* turns every cell into text before it cleans it.
CleanedOnPath(cell) ==
    IF parsed.op = "pdf" THEN clean_amount(StrCell(pdf_row(<<cell>>)[1])) ELSE clean_amount(cell)

KindAmountRule(tx, w, d) ==
    IF w > 0 THEN tx.kind = "debit" /\ tx.amount = w
             ELSE tx.kind = "credit" /\ tx.amount = d

\* ------------------------------------------------------------------------
\* C25: with w the cleaned withdrawal and d the cleaned deposit of a parsed
\* row, the transaction is a debit of amount w when w > 0, whatever d is,
\* and a credit of amount d otherwise, also when both are 0; in both
\* formats.
\* ------------------------------------------------------------------------
C25_KindAndAmountFromWithdrawal ==
    EveryDatedRowEmitted =>
       \A k \in 1..Len(DatedRows) :
          KindAmountRule(parsed.transactions[k],
                         CleanedOnPath(DatedRows[k][5]), CleanedOnPath(DatedRows[k][6]))

\* A row with a withdrawal and a deposit above 0 was emitted as a debit of
\* the withdrawal.
C25_Witness ==
    /\ EveryDatedRowEmitted
    /\ \E k \in 1..Len(DatedRows) :
          /\ CleanedOnPath(DatedRows[k][5]) > 0
          /\ CleanedOnPath(DatedRows[k][6]) > 0
          /\ parsed.transactions[k].kind = "debit"
          /\ parsed.transactions[k].amount = CleanedOnPath(DatedRows[k][5])
          /\ parsed.transactions[k].amount # CleanedOnPath(DatedRows[k][6])

\* The rows under the row the parse took as header, table after table.
RowsBelowHeader ==
    Concat([t \in 1..Len(TablesRead) |->
               IF parsed.headers[t] >= 1
               THEN SubSeq(TablesRead[t], parsed.headers[t] + 1, Len(TablesRead[t]))
               ELSE <<>>])

\* A cell as the parse reads it: the PDF parser turns every cell into text.
CellOnPath(cell) == IF parsed.op = "pdf" THEN StrCell(pdf_row(<<cell>>)[1]) ELSE cell

\* The date of a string in day/month/2-digit-year format, else in
\* day/month/4-digit-year format, NoDate for any other string.
DateOfString(s) == IF strptime(s, 2) # NoDate THEN strptime(s, 2) ELSE strptime(s, 4)

StringDate(cell) == IF cell.type = "str" THEN DateOfString(Strip(cell.text)) ELSE NoDate

\* The same, a datetime value being a date too.
StringOrDatetimeDate(cell) == IF cell.type = "datetime" THEN cell.num ELSE StringDate(cell)

HasStringDate(row) == StringDate(CellOnPath(row[1])) # NoDate
HasStringOrDatetimeDate(row) == StringOrDatetimeDate(CellOnPath(row[1])) # NoDate

\* The parse has a header, the columns of HeaderRow and no summary row.
RowsAllProcessed ==
    /\ parsed.op # "none"
    /\ StandardLayout
    /\ \E t \in 1..Len(TablesRead) : parsed.headers[t] >= 1
    /\ \A j \in 1..Len(Concat(TablesRead)) : ~HasSummaryMarker(Concat(TablesRead)[j])

\* The transactions are those of the rows in emitting, one for one and in
\* their order, with the date, description and reference of the row; the
\* parse raises only when there is none, and then the empty-statement error.
EmittedFrom(emitting) ==
    /\ Len(parsed.transactions) = Len(emitting)
    /\ \A k \in 1..Len(emitting) :
          /\ parsed.transactions[k].date = StringOrDatetimeDate(CellOnPath(emitting[k][1]))
          /\ parsed.transactions[k].description = Strip(PyStr(CellOnPath(emitting[k][2])))
          /\ parsed.transactions[k].reference = Strip(PyStr(CellOnPath(emitting[k][3])))
    /\ parsed.outcome = (IF emitting = <<>> THEN "raised" ELSE "ok")
    /\ parsed.outcome = "raised" => parsed.error = EmptyStatementMsg

\* ------------------------------------------------------------------------
\* C26, as stated: the rows under the header that emit a transaction are
\* exactly those whose date cell is a string in one of the two formats.
\* parse_date also takes a datetime value, which is what a date cell of a
\* sheet is read as, so this is violated.
\* ------------------------------------------------------------------------
C26_OnlyDateStringsEmit ==
    RowsAllProcessed => EmittedFrom(SelectSeq(RowsBelowHeader, HasStringDate))

\* ------------------------------------------------------------------------
\* C26, amended: the rows under the header that emit a transaction are
\* exactly those whose date cell is a datetime value or a string in
\* day/month/2-digit-year or day/month/4-digit-year format ("01/02/24" is
\* 2024-02-01); every other row with a date cell that is not empty is
\* dropped without raising, and the transactions of the other rows keep
\* their fields and their order.
\* ------------------------------------------------------------------------
C26_DateStringsAndDatetimesEmit ==
    RowsAllProcessed => EmittedFrom(SelectSeq(RowsBelowHeader, HasStringOrDatetimeDate))

\* A row with a date in another format was dropped, and the row under it,
\* dated "01/02/24", is the one transaction, of 2024-02-01.
C26_Witness ==
    /\ RowsAllProcessed
    /\ parsed.outcome = "ok"
    /\ Len(RowsBelowHeader) = 2
    /\ RowsBelowHeader[1][1] = StrCell(<<"2", "0", "2", "4", "-", "0", "2", "-", "0", "7">>)
    /\ RowsBelowHeader[2][1] = StrCell(<<"0", "1", "/", "0", "2", "/", "2", "4">>)
    /\ Len(parsed.transactions) = 1
    /\ parsed.transactions[1].date = 20240201

\* The positions of the labels of a header row that pass the test of a
\* logical column, on the lower-cased, trimmed label.
MatchingLabels(header, field) ==
    {i \in 1..Len(header) :
        /\ header[i].type = "str"
        /\ column_test(Lower(Strip(header[i].text)), ColumnTests[field])}

ColumnFields == {ColumnOrder[k] : k \in 1..Len(ColumnOrder)}

\* What the lookups of parse_excel_statement raise, for ColumnResolutionError.
ColumnResolutionErrors == {"StopIteration", "AttributeError"}

\* The row the spreadsheet parse took as header.
ExcelHeader == doc[1][parsed.headers[1]]

\* Every transaction has the date found in column c of a row under the header.
DatesFromColumn(c) ==
    \A k \in 1..Len(parsed.transactions) :
       \E j \in (parsed.headers[1] + 1)..Len(doc[1]) :
          /\ parsed.transactions[k].date = StringOrDatetimeDate(doc[1][j][c])
          /\ parsed.transactions[k].description = Strip(PyStr(doc[1][j][2]))

\* ------------------------------------------------------------------------
\* C27: with each logical column matched by exactly one label of the
\* header, the columns resolve and the dates are read from the column whose
\* label contains "date" and not "value", wherever the value date column
\* stands; with a logical column matched by no label, or by more than one,
\* the parse raises the column error and yields no transaction.  The
\* lookups take the first label that passes and never look for a second,
\* so this is violated.
\* ------------------------------------------------------------------------
C27_ColumnsResolvedUniquelyOrError ==
    (parsed.op = "excel" /\ parsed.headers[1] >= 1) =>
       /\ (\A f \in ColumnFields : Cardinality(MatchingLabels(ExcelHeader, f)) = 1) =>
             /\ parsed.error \notin ColumnResolutionErrors
             /\ \A c \in MatchingLabels(ExcelHeader, "date") : DatesFromColumn(c)
       /\ (\E f \in ColumnFields : Cardinality(MatchingLabels(ExcelHeader, f)) # 1) =>
             /\ parsed.outcome = "raised"
             /\ parsed.error \in ColumnResolutionErrors
             /\ parsed.transactions = <<>>

\* The description, kind and amount of the transactions, in their order.
Projection(transactions) ==
    [k \in 1..Len(transactions) |->
        <<transactions[k].description, transactions[k].kind, transactions[k].amount>>]

\* The parse in state took the same header as the parse other of the same
\* table, and they have the same transactions.
SameHeader(other) == other.headers = parsed.headers /\ parsed.headers[1] >= 1
SameTransactions(other) == Projection(other.transactions) = Projection(parsed.transactions)

\* ------------------------------------------------------------------------
\* C28: the spreadsheet parse and the PDF parse of one table of title,
\* header, dated, continuation, summary and bad-date rows, with the same
\* header and so the same rows below it, give the same sequence of
\* transactions: the same count, descriptions, kinds and amounts.  Under a
\* summary row the spreadsheet parser stops and the PDF parser goes on
\* (C20), so this is violated.
\* ------------------------------------------------------------------------
C28_FormatsAgree ==
    (parsed.op = "excel" /\ Len(doc) = 1
        /\ (\A j \in 1..Len(doc[1]) : doc[1][j] \in RowKinds)
        /\ SameHeader(parse_pdf_statement(doc))) =>
       SameTransactions(parse_pdf_statement(doc))

\* ------------------------------------------------------------------------
\* C29: in every reachable state, in what the connection sees and in what
\* is committed, two different rows with the same (date, description,
\* amount, kind) are never both bank_statement rows: of two rows that
\* coincide on the four fields at least one is manual.
\* ------------------------------------------------------------------------
C29_BankRowsDifferInKey ==
    \A d \in {db, saved} : \A r1 \in d.txns, r2 \in d.txns :
       (r1 # r2 /\ Key(r1) = Key(r2)) => (r1.source = "manual" \/ r2.source = "manual")

\* A manual row coincides with a bank row, and an ingest of that row again
\* counted it as a duplicate.
C29_Witness ==
    /\ last.op = "ingest" /\ last.outcome = "ok" /\ last.dups >= 1 /\ last.added = 0
    /\ \E m \in saved.txns, b \in saved.txns :
          m.source = "manual" /\ b.source = "bank_statement" /\ Key(m) = Key(b)

\* ------------------------------------------------------------------------
\* C30: one submission of the Add New Transaction form adds exactly one
\* transaction to the store, a manual one, and the id kept for the Accept
\* Match and Decline buttons is the id of that row.  show_transactions
\* calls add_manual_transaction twice in the run of a submission, so this
\* is violated.
\* ------------------------------------------------------------------------
C30_OneSubmissionOneManualRow ==
    [][last'.op = "submit_form" =>
          /\ Cardinality(db'.txns \ db.txns) = 1
          /\ \A r \in db'.txns \ db.txns : r.source = "manual" /\ r.id = last'.id]_vars

====
